---------------------------- MODULE Spec2Model ----------------------------
(***************************************************************************)
(* A model of the TikTok extraction pipeline of this repository.           *)
(*                                                                         *)
(* The repository holds three implementations of scrapeTikTok:             *)
(*   "lib"   src/lib/tiktok-scraper.ts   one page fetch, inline assembly   *)
(*   "part1" src/unnamed/part_001        three strategies, formatResponse  *)
(*   "part2" src/unnamed/part_002        three strategies, formatResponse  *)
(* The variable impl says which one a behaviour runs.                      *)
(*                                                                         *)
(* Strings the code takes apart (URLs, identifiers) are sequences of       *)
(* one-character strings, so that the regular expressions of               *)
(* extractVideoId are computed and not assumed.                            *)
(***************************************************************************)
EXTENDS Integers, Sequences, FiniteSets, TLC

VARIABLES
  impl,       \* which implementation runs
  url,        \* the argument of scrapeTikTok / extractVideoId
  raw,        \* the upstream's raw item record for this content
  pc,         \* where the call is: a suspension point of the async function
  videoId,    \* const videoId = extractVideoId(url)
  calls,      \* strategies invoked so far, in order
  requests,   \* axios.get calls issued so far, in order
  inflight,   \* strategies whose promise has not settled
  raised,     \* messages of the errors thrown so far by axios.get / JSON.parse
  stratRet,   \* what the last strategy returned (or that it threw)
  mirror,     \* index in apiUrls of the request in flight (0: none)
  result,     \* the envelope scrapeTikTok resolved with
  threw,      \* TRUE when scrapeTikTok rejected instead of resolving
  now,        \* the clock: what new Date() reads, in milliseconds
  num,        \* the argument of formatNumber
  text,       \* what formatNumber returned
  fetched     \* the containers of the document the page request returned

vars == <<impl, url, raw, now, num, text, fetched, pc, videoId, calls, requests,
          inflight, raised, stratRet, mirror, result, threw>>

Impls == {"lib", "part1", "part2"}

(***************************************************************************)
(* Bounds of the model.                                                    *)
(***************************************************************************)
MaxIdLen == 2

Max(S) == CHOOSE x \in S : \A y \in S : y <= x
Min(S) == CHOOSE x \in S : \A y \in S : x <= y

(***************************************************************************)
(* Characters and the character classes of the regular expressions.        *)
(***************************************************************************)
Digits == {"0", "1", "2", "3", "4", "5", "6", "7", "8", "9"}
Lower == {"a", "b", "c", "d", "e", "f", "g", "h", "i", "j", "k", "l", "m",
          "n", "o", "p", "q", "r", "s", "t", "u", "v", "w", "x", "y", "z"}
Upper == {"A", "B", "C", "D", "E", "F", "G", "H", "I", "J", "K", "L", "M",
          "N", "O", "P", "Q", "R", "S", "T", "U", "V", "W", "X", "Y", "Z"}
\* \w is [A-Za-z0-9_]
WordChars == Digits \cup Lower \cup Upper \cup {"_"}

InClass(ch, cls) ==
  CASE cls = "d"    -> ch \in Digits
    [] cls = "w"    -> ch \in WordChars
    [] cls = "wdot" -> ch \in WordChars \cup {"."}
    [] cls = "any"  -> TRUE

(***************************************************************************)
(* Regular expressions: a pattern is a sequence of elements, a literal     *)
(* character, a greedy X+ over a class (capturing or not) or a greedy .*   *)
(***************************************************************************)
Lit(s) == [i \in 1..Len(s) |-> [k |-> "lit", c |-> s[i], cap |-> FALSE]]
Plus(cls) == <<[k |-> "plus", c |-> cls, cap |-> FALSE]>>
Group(cls) == <<[k |-> "plus", c |-> cls, cap |-> TRUE]>>
AnyStar == <<[k |-> "star", c |-> "any", cap |-> FALSE]>>

NoMatch == [ok |-> FALSE, cap |-> <<>>]

\* the longest run of characters of class cls that starts at s[i]
RunLen(s, i, cls) ==
  Max({n \in 0..(Len(s) - i + 1) : \A m \in 0..(n - 1) : InClass(s[i + m], cls)})

\* p[j..] matched against s from position i: greedy, with backtracking
RECURSIVE MatchAt(_, _, _, _)
MatchAt(s, i, p, j) ==
  IF j > Len(p) THEN [ok |-> TRUE, cap |-> <<>>]
  ELSE LET e == p[j] IN
    IF e.k = "lit"
    THEN IF i <= Len(s) /\ s[i] = e.c THEN MatchAt(s, i + 1, p, j + 1) ELSE NoMatch
    ELSE LET lo == IF e.k = "plus" THEN 1 ELSE 0
             good == {n \in lo..RunLen(s, i, e.c) : MatchAt(s, i + n, p, j + 1).ok}
         IN IF good = {} THEN NoMatch
            ELSE LET n == Max(good)
                     r == MatchAt(s, i + n, p, j + 1)
                 IN [ok |-> TRUE,
                     cap |-> IF e.cap THEN SubSeq(s, i, i + n - 1) ELSE r.cap]

\* String.prototype.match with a non-global regex: the leftmost match
Search(s, p) ==
  LET starts == {i \in 1..(Len(s) + 1) : MatchAt(s, i, p, 1).ok}
  IN IF starts = {} THEN NoMatch ELSE MatchAt(s, Min(starts), p, 1)

\* String.prototype.includes
Includes(s, t) ==
  \E i \in 1..(Len(s) - Len(t) + 1) : SubSeq(s, i, i + Len(t) - 1) = t

(***************************************************************************)
(* The URL patterns of extractVideoId.                                     *)
(***************************************************************************)
TikTokCom == <<"t", "i", "k", "t", "o", "k", ".", "c", "o", "m">>
VmHost == <<"v", "m", ".">> \o TikTokCom
VtHost == <<"v", "t", ".">> \o TikTokCom
MHost == <<"m", ".">> \o TikTokCom
SlashVideo == <<"/", "v", "i", "d", "e", "o", "/">>
SlashV == <<"/", "v", "/">>
SlashT == <<"/", "t", "/">>

\* /tiktok\.com\/@[\w.]+\/video\/(\d+)/
PatCanonical == Lit(TikTokCom \o <<"/", "@">>) \o Plus("wdot") \o Lit(SlashVideo) \o Group("d")
\* /tiktok\.com\/t\/(\w+)/
PatT == Lit(TikTokCom \o SlashT) \o Group("w")
\* /vm\.tiktok\.com\/(\w+)/
PatVm == Lit(VmHost \o <<"/">>) \o Group("w")
\* /vt\.tiktok\.com\/(\w+)/
PatVt == Lit(VtHost \o <<"/">>) \o Group("w")
\* /tiktok\.com\/video\/(\d+)/
PatVideo == Lit(TikTokCom \o SlashVideo) \o Group("d")
\* /\/v\/(\d+)/
PatV == Lit(SlashV) \o Group("d")
\* /m\.tiktok\.com\/v\/(\d+)/
PatMV == Lit(MHost \o SlashV) \o Group("d")
\* /tiktok\.com\/.*\/video\/(\d+)/
PatAnyVideo == Lit(TikTokCom \o <<"/">>) \o AnyStar \o Lit(SlashVideo) \o Group("d")

patterns(im) ==
  CASE im = "lib"   -> <<PatCanonical, PatT, PatVm, PatVideo, PatV>>
    [] im = "part2" -> <<PatCanonical, PatT, PatVm, PatVt, PatVideo, PatV, PatMV>>
    [] im = "part1" -> <<PatCanonical, PatT, PatVm, PatVt, PatVideo, PatV, PatMV,
                         PatAnyVideo>>

\* JavaScript's null for a string-valued result.  No capture group can be
\* empty (each is X+), so the empty sequence is free to stand for null, which
\* `!videoId` treats as it treats "".
Null == <<>>
Pending == <<"p", "e", "n", "d", "i", "n", "g">>

\* what extractVideoId returns when no pattern matched
NoPatternResult(im, u) ==
  IF im = "lib" /\ (Includes(u, VmHost) \/ Includes(u, VtHost))
  THEN Pending
  ELSE Null

\* mutant of PatternLoop: the loop does not return at the first match and
\* keeps the last one
RECURSIVE PatternLoop_LastWins(_, _, _)
PatternLoop_LastWins(im, u, k) ==
  IF k > Len(patterns(im)) THEN NoPatternResult(im, u)
  ELSE LET m == Search(u, patterns(im)[k])
           rest == {j \in (k + 1)..Len(patterns(im)) : Search(u, patterns(im)[j]).ok}
       IN IF m.ok /\ rest = {} THEN m.cap ELSE PatternLoop_LastWins(im, u, k + 1)

\* for (const pattern of patterns) { const match = url.match(pattern);
\*                                   if (match) return match[1]; }
RECURSIVE PatternLoop(_, _, _)
PatternLoop(im, u, k) ==
  IF k > Len(patterns(im)) THEN NoPatternResult(im, u)
  ELSE LET m == Search(u, patterns(im)[k])
       IN IF m.ok THEN m.cap ELSE PatternLoop(im, u, k + 1)

extractVideoId(im, u) == PatternLoop(im, u, 1)

(***************************************************************************)
(* Raw item records.  A record is the upstream's JSON object; here it is a *)
(* TLA+ record of the fields the assemblers read.  An absent string field  *)
(* is Null (both are falsy in `a || b`), an absent number is 0, an absent  *)
(* object has present = FALSE.                                             *)
(***************************************************************************)
MaxPlay == 2
MaxBitRate == 2
MaxImages == 2

SeqsUpTo(S, n) == UNION {[1..k -> S] : k \in 0..n}

\* a || b on strings
OrElse(a, b) == IF a # Null THEN a ELSE b

Q1080p == <<"1", "0", "8", "0", "p">>
Q720p == <<"7", "2", "0", "p">>
Q540p == <<"5", "4", "0", "p">>
Q480p == <<"4", "8", "0", "p">>
QDefault == <<"d", "e", "f", "a", "u", "l", "t">>
Undefined == <<"u", "n", "d", "e", "f", "i", "n", "e", "d">>
\* JavaScript's undefined as the value of a field of the output: JSON.stringify
\* leaves the key out.  It is no string of characters, and it is not null.
UndefinedValue == <<"undefined">>

U1 == <<"u", "1">>
U2 == <<"u", "2">>
U3 == <<"u", "3">>
W1 == <<"w", "1">>
I1 == <<"i", "1">>
I2 == <<"i", "2">>
Id99 == <<"9", "9">>

DigitOf(n) == CASE n = 0 -> "0" [] n = 1 -> "1" [] n = 2 -> "2" [] n = 3 -> "3"
                [] n = 4 -> "4" [] n = 5 -> "5" [] n = 6 -> "6" [] n = 7 -> "7"
                [] n = 8 -> "8" [] n = 9 -> "9"

\* Number.prototype.toString of a non-negative integer
RECURSIVE ToDec(_)
ToDec(n) == IF n < 10 THEN <<DigitOf(n)>> ELSE ToDec(n \div 10) \o <<DigitOf(n % 10)>>

\* `${x}` of a number field; 0 stands for a missing field (undefined)
Interp(n) == IF n = 0 THEN Undefined ELSE ToDec(n)

(***************************************************************************)
(* JavaScript values of the fields the upstream types loosely: a number, a *)
(* string, undefined, and the number NaN that parseInt can give.           *)
(***************************************************************************)
Num(n) == [t |-> "number", n |-> n]
Str(chars) == [t |-> "string", s |-> chars]
Missing == [t |-> "undefined"]
NaN == [t |-> "NaN"]

\* what `if (v)`, `!v` and `v || w` look at
Truthy(v) ==
  CASE v.t = "number" -> v.n # 0
    [] v.t = "string" -> v.s # <<>>
    [] OTHER          -> FALSE

\* a || b
Or(a, b) == IF Truthy(a) THEN a ELSE b

\* the value of a decimal numeral
RECURSIVE FromDec(_)
FromDec(ds) ==
  IF ds = <<>> THEN 0
  ELSE 10 * FromDec(SubSeq(ds, 1, Len(ds) - 1))
       + (CHOOSE n \in 0..9 : DigitOf(n) = ds[Len(ds)])

\* parseInt(v): the leading decimal digits of String(v), NaN when there are none
parseInt(v) ==
  CASE v.t = "number" -> v
    [] v.t = "string" -> IF RunLen(v.s, 1, "d") = 0 THEN NaN
                         ELSE Num(FromDec(SubSeq(v.s, 1, RunLen(v.s, 1, "d"))))
    [] OTHER          -> NaN

\* Number(v): the whole string must be a numeral; '' is 0
ToNumber(v) ==
  CASE v.t = "number" -> v
    [] v.t = "string" -> IF RunLen(v.s, 1, "d") = Len(v.s) THEN Num(FromDec(v.s)) ELSE NaN
    [] OTHER          -> NaN

\* isNaN(v)
isNaN(v) == ToNumber(v) = NaN

\* v >= bound, which is false when v converts to NaN
AtLeast(v, bound) == ToNumber(v) # NaN /\ ToNumber(v).n >= bound

\* v.toString()
toString(v) ==
  CASE v.t = "number" -> ToDec(v.n)
    [] v.t = "string" -> v.s
    [] v.t = "NaN"    -> <<"N", "a", "N">>
    [] OTHER          -> Undefined

(***************************************************************************)
(* formatNumber.  num / 1000 is a double, the one nearest to the quotient, *)
(* and toFixed(1) gives the tenth nearest to that double, the larger one   *)
(* when both are as near.                                                  *)
(***************************************************************************)
Thousand == 1000
Million == 1000000

RECURSIVE Log2Floor(_)
Log2Floor(w) == IF w < 2 THEN 0 ELSE 1 + Log2Floor(w \div 2)

RECURSIVE PowMod(_, _, _)
PowMod(b, k, m) == IF k = 0 THEN 1 % m ELSE (b * PowMod(b, k - 1, m)) % m

\* d = 2^TwoPart(d) * FivePart(d)
TwoPart(d) == IF d = Thousand THEN 3 ELSE 6
FivePart(d) == IF d = Thousand THEN 125 ELSE 15625

\* n / d lies midway between two tenths: the double nearest to n / d is the
\* quotient itself or lies above it exactly when the fraction cut off from
\* the 53-bit significand, rho / FivePart(d), is zero or more than a half
TieRoundsUp(n, d) ==
  LET e == Log2Floor(n \div d)
      rho == ((n % FivePart(d)) * PowMod(2, 52 - e - TwoPart(d), FivePart(d))) % FivePart(d)
  IN rho = 0 \/ 2 * rho > FivePart(d)

\* (n / d).toFixed(1) in tenths, for n >= d
Tenths(n, d) ==
  LET whole == n \div d
      t10 == ((n % d) * 10) \div d
      rem == ((n % d) * 10) % d
      up == IF 2 * rem > d THEN TRUE
            ELSE IF 2 * rem < d THEN FALSE
            ELSE TieRoundsUp(n, d)
  IN whole * 10 + t10 + (IF up THEN 1 ELSE 0)

\* (n / d).toFixed(1)
toFixed1(n, d) ==
  LET f == Tenths(n, d) IN ToDec(f \div 10) \o <<".", DigitOf(f % 10)>>

\* .replace(/\.0$/, '')
StripPointZero(str) ==
  IF Len(str) >= 2 /\ SubSeq(str, Len(str) - 1, Len(str)) = <<".", "0">>
  THEN SubSeq(str, 1, Len(str) - 2)
  ELSE str

\* formatNumber of src/lib/formatter.ts, which part_002 imports
formatNumber_lib(v) ==
  IF AtLeast(v, Million)
  THEN StripPointZero(toFixed1(ToNumber(v).n, Million)) \o <<"m">>
  ELSE IF AtLeast(v, Thousand)
  THEN StripPointZero(toFixed1(ToNumber(v).n, Thousand)) \o <<"k">>
  ELSE toString(v)

\* formatNumber of src/unnamed/part_001
formatNumber_part1(v) ==
  IF ~Truthy(v) \/ isNaN(v) THEN <<"0">>
  ELSE formatNumber_lib(parseInt(v))

formatNumber(im, v) ==
  IF im = "part1" THEN formatNumber_part1(v) ELSE formatNumber_lib(v)

NoVideo ==
  [present |-> FALSE, ratio |-> Null, quality |-> Null,
   play_addr |-> <<>>, bit_rate |-> <<>>, download_addr |-> <<>>,
   playAddr |-> Null, bitrateInfo |-> <<>>, downloadAddr |-> Null]

NoImages == [present |-> FALSE, images |-> <<>>]

\* itemStruct.statistics / itemStruct.stats: an absent key is undefined
NoStats ==
  [present |-> FALSE,
   digg_count |-> Missing, diggCount |-> Missing,
   comment_count |-> Missing, commentCount |-> Missing,
   share_count |-> Missing, shareCount |-> Missing,
   play_count |-> Missing, playCount |-> Missing]

\* create_time / createTime are seconds since the epoch, 0 when absent
RawBase ==
  [aweme_id |-> Null, id |-> Null, video_id |-> Null, aweme_type |-> 0,
   imagePost |-> NoImages, image_post_info |-> NoImages, video |-> NoVideo,
   statistics |-> NoStats, stats |-> NoStats, create_time |-> 0, createTime |-> 0]

\* an entry of imagePost.images / image_post_info.images
Img(a, b, c, d) ==
  [url_list |-> a, display_image |-> b, origin_image |-> c, imageURL |-> d]

\* an entry of video.bit_rate (snake case) or video.bitrateInfo (camel case)
BitRate(u, w, h, q) == [url |-> u, width |-> w, height |-> h, Resolution |-> q]

(***************************************************************************)
(* The quality pool of a video record.                                     *)
(***************************************************************************)
\* const qualityOrder = { '1080p': 4, '720p': 3, '540p': 2, '480p': 1 };
\* qualityOrder[q] || 0
qualityOrder(q) ==
  CASE q = Q1080p -> 4
    [] q = Q720p  -> 3
    [] q = Q540p  -> 2
    [] q = Q480p  -> 1
    [] OTHER      -> 0

Entry(u, q) == [url |-> u, quality |-> q]

\* urls.forEach(url => { if (url) push({url, quality}) })
RECURSIVE PushEach(_, _)
PushEach(urls, q) ==
  IF urls = <<>> THEN <<>>
  ELSE (IF Head(urls) # Null THEN <<Entry(Head(urls), q)>> ELSE <<>>)
       \o PushEach(Tail(urls), q)

\* bit_rate.forEach(info => { if (info.play_addr?.url_list?.[0]) push(...) })
\* with quality `${info.width}x${info.height}`, a string that is never empty
RECURSIVE PushBitRates(_)
PushBitRates(infos) ==
  IF infos = <<>> THEN <<>>
  ELSE LET info == Head(infos)
       IN (IF info.url # Null
           THEN <<Entry(info.url, Interp(info.width) \o <<"x">> \o Interp(info.height))>>
           ELSE <<>>)
          \o PushBitRates(Tail(infos))

\* qualities.filter(q => { if (seenUrls.has(q.url)) return false;
\*                         seenUrls.add(q.url); return true; })
RECURSIVE DedupFrom(_, _)
DedupFrom(qs, seenUrls) ==
  IF qs = <<>> THEN <<>>
  ELSE IF Head(qs).url \in seenUrls
       THEN DedupFrom(Tail(qs), seenUrls)
       ELSE <<Head(qs)>> \o DedupFrom(Tail(qs), seenUrls \cup {Head(qs).url})

Deduplicate(qs) == DedupFrom(qs, {})

\* Array.prototype.sort((a, b) => bScore - aScore): stable, highest rank first
RECURSIVE InsertByRank(_, _)
InsertByRank(sorted, q) ==
  IF sorted = <<>> THEN <<q>>
  ELSE IF qualityOrder(Head(sorted).quality) >= qualityOrder(q.quality)
       THEN <<Head(sorted)>> \o InsertByRank(Tail(sorted), q)
       ELSE <<q>> \o sorted

RECURSIVE SortByRank(_)
SortByRank(qs) ==
  IF qs = <<>> THEN <<>>
  ELSE InsertByRank(SortByRank(SubSeq(qs, 1, Len(qs) - 1)), qs[Len(qs)])

\* q.quality.includes('720') || q.quality.includes('1080')
IsHd(q) == Includes(q.quality, <<"7", "2", "0">>) \/ Includes(q.quality, <<"1", "0", "8", "0">>)

\* qs.find(IsHd)?.url || qs[0]?.url || otherwise, where otherwise is null in
\* part_001 and, the expression ending at qs[0]?.url, undefined elsewhere
PickHd(qs, otherwise) ==
  LET hits == {i \in 1..Len(qs) : IsHd(qs[i])}
  IN IF hits # {} /\ qs[Min(hits)].url # Null THEN qs[Min(hits)].url
     ELSE IF qs # <<>> /\ qs[1].url # Null THEN qs[1].url
     ELSE otherwise

(***************************************************************************)
(* The canonical record.  Of the output's fields the model keeps type, id, *)
(* statistics, createdAt, video and images; an absent optional field has   *)
(* present = FALSE.                                                        *)
(***************************************************************************)
AbsentVideo ==
  [present |-> FALSE, noWatermark |-> <<>>, withWatermark |-> <<>>, hd |-> Null]
AbsentImages == [present |-> FALSE, list |-> <<>>]

Success(d) == [status |-> "success", data |-> d]
Failure(m) == [status |-> "error", message |-> m]

HasImages(field) == field.present /\ Len(field.images) > 0

\* the url of an image entry: the first alias that is set, or ''
imageUrl(im, img) ==
  CASE im = "part1" -> OrElse(img.url_list, OrElse(img.display_image, img.origin_image))
    [] im = "part2" -> OrElse(img.url_list, img.display_image)
    [] im = "lib"   -> img.imageURL

\* images.map(img => ({url: ...}))
MapImages(im, images) == [i \in 1..Len(images) |-> [url |-> imageUrl(im, images[i])]]

\* .filter(img => img.url)
RECURSIVE DropEmpty(_)
DropEmpty(imgs) ==
  IF imgs = <<>> THEN <<>>
  ELSE (IF Head(imgs).url # Null THEN <<Head(imgs)>> ELSE <<>>) \o DropEmpty(Tail(imgs))

(***************************************************************************)
(* Statistics and the creation time.                                       *)
(***************************************************************************)
StatFields == {"likes", "comments", "shares", "views"}

SnakeKey(f) ==
  CASE f = "likes"    -> "digg_count"
    [] f = "comments" -> "comment_count"
    [] f = "shares"   -> "share_count"
    [] f = "views"    -> "play_count"

CamelKey(f) ==
  CASE f = "likes"    -> "diggCount"
    [] f = "comments" -> "commentCount"
    [] f = "shares"   -> "shareCount"
    [] f = "views"    -> "playCount"

\* the statistics object of the output: four display strings, four raw values
StatisticsOf(shown, kept) ==
  [likes |-> shown["likes"], comments |-> shown["comments"],
   shares |-> shown["shares"], views |-> shown["views"],
   likesRaw |-> kept["likes"], commentsRaw |-> kept["comments"],
   sharesRaw |-> kept["shares"], viewsRaw |-> kept["views"]]

\* const stats = itemStruct.statistics || itemStruct.stats || {}
stats_part1(item) ==
  IF item.statistics.present THEN item.statistics
  ELSE IF item.stats.present THEN item.stats
  ELSE NoStats

\* stats.digg_count || stats.diggCount || 0
resolve_part1(item, f) ==
  Or(stats_part1(item)[SnakeKey(f)], Or(stats_part1(item)[CamelKey(f)], Num(0)))

\* likes: formatNumber(...), likesRaw: parseInt(...)
statistics_part1(item) ==
  StatisticsOf([f \in StatFields |->
                  formatNumber_part1(resolve_part1(item, f))],
               [f \in StatFields |->
                  parseInt(resolve_part1(item, f))])

\* itemStruct.statistics?.digg_count || itemStruct.stats?.diggCount || 0
resolve_part2(item, f) ==
  Or(item.statistics[SnakeKey(f)], Or(item.stats[CamelKey(f)], Num(0)))

\* likes: formatNumber(...), likesRaw: the value as it came
statistics_part2(item) ==
  StatisticsOf([f \in StatFields |->
                  formatNumber_lib(resolve_part2(item, f))],
               [f \in StatFields |->
                  resolve_part2(item, f)])

\* itemStruct.stats?.diggCount || 0
resolve_lib(item, f) == Or(item.stats[CamelKey(f)], Num(0))

statistics_lib(item) ==
  StatisticsOf([f \in StatFields |->
                  formatNumber_lib(resolve_lib(item, f))],
               [f \in StatFields |->
                  resolve_lib(item, f)])

\* new Date(ms).toISOString(): the ISO 8601 text of the instant ms
toISOString(ms) == [t |-> "string", iso |-> ms]

\* new Date(seconds * 1000)
DateOfSeconds(seconds) == seconds * Thousand

\* createTime ? new Date(createTime * 1000).toISOString()
\*            : new Date().toISOString()
createdAt_part1(item) ==
  LET createTime == IF item.create_time # 0 THEN item.create_time ELSE item.createTime
  IN IF createTime # 0 THEN toISOString(DateOfSeconds(createTime)) ELSE toISOString(now)

\* itemStruct.create_time ? new Date(...).toISOString() : ''
createdAt_part2(item) ==
  IF item.create_time # 0 THEN toISOString(DateOfSeconds(item.create_time)) ELSE Str(<<>>)

\* itemStruct.createTime ? new Date(...).toISOString() : ''
createdAt_lib(item) ==
  IF item.createTime # 0 THEN toISOString(DateOfSeconds(item.createTime)) ELSE Str(<<>>)

(***************************************************************************)
(* formatResponse of src/unnamed/part_001.                                 *)
(***************************************************************************)
isImagePost_part1(item) ==
  \/ HasImages(item.imagePost)
  \/ HasImages(item.image_post_info)
  \/ item.aweme_type = 150

\* const videoInfo = itemStruct.video || {}
videoInfo_part1(item) == IF item.video.present THEN item.video ELSE NoVideo

qualities_part1(v) ==
  PushEach(v.play_addr, OrElse(v.ratio, OrElse(v.quality, Q540p)))
  \o PushBitRates(v.bit_rate)

uniqueQualities_part1(v) == SortByRank(Deduplicate(qualities_part1(v)))

video_part1(item) ==
  LET v == videoInfo_part1(item)
      unique == uniqueQualities_part1(v)
  IN [present |-> TRUE,
      noWatermark |-> unique,
      withWatermark |-> PushEach(v.download_addr, OrElse(v.ratio, Q540p)),
      hd |-> PickHd(unique, Null)]

\* itemStruct.imagePost?.images || itemStruct.image_post_info?.images || []
images_part1(item) ==
  LET images == IF item.imagePost.present THEN item.imagePost.images
                ELSE IF item.image_post_info.present THEN item.image_post_info.images
                ELSE <<>>
  IN [present |-> TRUE, list |-> DropEmpty(MapImages("part1", images))]

formatResponse_part1(item) ==
  LET isImagePost == isImagePost_part1(item)
  IN Success([type |-> IF isImagePost THEN "images" ELSE "video",
              id |-> OrElse(item.aweme_id, OrElse(item.id, item.video_id)),
              statistics |-> statistics_part1(item),
              createdAt |-> createdAt_part1(item),
              video |-> IF ~isImagePost THEN video_part1(item) ELSE AbsentVideo,
              images |-> IF isImagePost THEN images_part1(item) ELSE AbsentImages])

(***************************************************************************)
(* formatResponse of src/unnamed/part_002.                                 *)
(***************************************************************************)
isImagePost_part2(item) == HasImages(item.imagePost)

\* only url_list[0] of play_addr is read
qualities_part2(v) ==
  (IF v.play_addr # <<>> /\ v.play_addr[1] # Null
   THEN <<Entry(v.play_addr[1], OrElse(v.ratio, Q540p))>> ELSE <<>>)
  \o PushBitRates(v.bit_rate)

video_part2(item) ==
  LET v == item.video
      qualities == qualities_part2(v)
  IN [present |-> TRUE,
      noWatermark |-> qualities,
      withWatermark |-> IF v.download_addr # <<>> /\ v.download_addr[1] # Null
                        THEN <<Entry(v.download_addr[1], OrElse(v.ratio, Q540p))>>
                        ELSE <<>>,
      hd |-> PickHd(qualities, UndefinedValue)]

images_part2(item) ==
  [present |-> TRUE, list |-> MapImages("part2", item.imagePost.images)]

formatResponse_part2(item) ==
  LET isImagePost == isImagePost_part2(item)
  IN Success([type |-> IF isImagePost THEN "images" ELSE "video",
              id |-> OrElse(item.aweme_id, item.id),
              statistics |-> statistics_part2(item),
              createdAt |-> createdAt_part2(item),
              video |-> IF ~isImagePost /\ item.video.present
                        THEN video_part2(item) ELSE AbsentVideo,
              images |-> IF isImagePost THEN images_part2(item) ELSE AbsentImages])

(***************************************************************************)
(* The inline assembly of src/lib/tiktok-scraper.ts (camel-case fields).   *)
(***************************************************************************)
RECURSIVE PushBitrateInfo(_)
PushBitrateInfo(infos) ==
  IF infos = <<>> THEN <<>>
  ELSE LET info == Head(infos)
       IN (IF info.url # Null
           THEN <<Entry(info.url, OrElse(info.Resolution, Q540p))>> ELSE <<>>)
          \o PushBitrateInfo(Tail(infos))

qualities_lib(v) ==
  (IF v.playAddr # Null THEN <<Entry(v.playAddr, OrElse(v.ratio, Q540p))>> ELSE <<>>)
  \o PushBitrateInfo(v.bitrateInfo)

video_lib(item) ==
  LET v == item.video
      qualities == qualities_lib(v)
  IN [present |-> TRUE,
      noWatermark |-> qualities,
      withWatermark |-> IF v.downloadAddr # Null
                        THEN <<Entry(v.downloadAddr, OrElse(v.ratio, Q540p))>>
                        ELSE <<>>,
      hd |-> PickHd(qualities, UndefinedValue)]

\* id: itemStruct.id || videoId
assemble_lib(item, vid) ==
  LET isImagePost == HasImages(item.imagePost)
  IN Success([type |-> IF isImagePost THEN "images" ELSE "video",
              id |-> OrElse(item.id, vid),
              statistics |-> statistics_lib(item),
              createdAt |-> createdAt_lib(item),
              video |-> IF ~isImagePost /\ item.video.present
                        THEN video_lib(item) ELSE AbsentVideo,
              images |-> IF isImagePost
                         THEN [present |-> TRUE,
                               list |-> MapImages("lib", item.imagePost.images)]
                         ELSE AbsentImages])

formatResponse(im, item) ==
  IF im = "part1" THEN formatResponse_part1(item) ELSE formatResponse_part2(item)

(***************************************************************************)
(* Messages.  A message is the sequence of its sentences; the message of a *)
(* thrown error is one sentence.                                           *)
(***************************************************************************)
InvalidUrlMessage(im) ==
  IF im = "lib" THEN <<"Invalid TikTok URL">> ELSE <<"Invalid TikTok URL format">>

AllFailedMessage(im) ==
  IF im = "part1"
  THEN <<"All extraction methods failed.", "Video may be private, deleted, or region-blocked.">>
  ELSE <<"All extraction methods failed.", "Video may be private or region-blocked.">>

NoDataMessage == <<"Could not extract video data">>
NotFoundMessage == <<"Video not found or private">>
UnknownErrorMessage == <<"Unknown error occurred">>

\* what axios.get rejects with: a timeout, a non-2xx status
NetErrors == {<<"timeout of 10000ms exceeded">>, <<"Request failed with status code 403">>}
\* what JSON.parse throws
ParseError == <<"Unexpected token < in JSON at position 0">>

(***************************************************************************)
(* What a strategy hands to the orchestrator's loop.                       *)
(***************************************************************************)
NoRet == [status |-> "none"]
NullRet == [status |-> "null"]
Thrown(e) == [status |-> "thrown", error |-> e]

Strategies == <<"page", "api", "embed">>

\* the list apiUrls of fetchFromApi: three mirrors in part_001, one endpoint
\* in part_002
NumMirrors(im) == IF im = "part1" THEN 3 ELSE 1

PageRequest(u) == [kind |-> "page", target |-> u, mirror |-> 0]
\* mutant of ApiRequest: the request that follows a failed one goes to the
\* same mirror again
ApiRequest_SameMirror(id, m) == [kind |-> "api", target |-> id, mirror |-> 1]
ApiRequest(id, m) == [kind |-> "api", target |-> id, mirror |-> m]
EmbedRequest(id) == [kind |-> "embed", target |-> id, mirror |-> 0]

\* the states of an embedded-data container of a fetched document
ContainerStates == {"absent", "badjson", "noitem", "item"}
\* #__UNIVERSAL_DATA_FOR_REHYDRATION__, #__SIGI_STATE__, #__NEXT_DATA__
NumContainers(im) == CASE im = "part1" -> 3 [] im = "part2" -> 2 [] im = "lib" -> 1

\* fetchFromWebPage after the response: the containers in order.  part_001
\* wraps each JSON.parse in try/catch; part_002 lets it throw.
RECURSIVE ScanContainers(_, _, _, _)
ScanContainers(im, doc, k, item) ==
  IF k > NumContainers(im) THEN NullRet
  ELSE CASE doc[k] = "item"    -> formatResponse(im, item)
         [] doc[k] = "badjson" -> IF im = "part1"
                                  THEN ScanContainers(im, doc, k + 1, item)
                                  ELSE Thrown(ParseError)
         [] OTHER              -> ScanContainers(im, doc, k + 1, item)

\* fetchFromEmbed after the response.  part_001 parses the inline script
\* inside try/catch; part_002 returns null whatever the page holds.
EmbedResult(im, body, item) ==
  IF im = "part1" /\ body = "item" THEN formatResponse(im, item) ELSE NullRet

\* src/lib/tiktok-scraper.ts after the response
LibPageResult(body, item, vid) ==
  CASE body = "absent"  -> Failure(NoDataMessage)
    [] body = "badjson" -> Thrown(ParseError)
    [] body = "noitem"  -> Failure(NotFoundMessage)
    [] body = "item"    -> assemble_lib(item, vid)

(***************************************************************************)
(* The orchestrator's loop.                                                *)
(***************************************************************************)
\* mutants of LoopDecision: the loop does not stop at a success; the loop has
\* no catch, so that a strategy's error leaves it
LoopDecision_NoShortCircuit(ret) == "next"
LoopDecision_NoCatch(ret) ==
  CASE ret.status = "success" -> "return"
    [] ret.status = "thrown"  -> "propagate"
    [] OTHER                  -> "next"

\* try { const result = await strategy();
\*       if (result && result.status === 'success') return result; }
\* catch (e) { continue; }
LoopDecision(ret) == IF ret.status = "success" THEN "return" ELSE "next"

\* return result
Returned(ret) == ret

\* the strategy the for-of loop runs after the k-th one
NextStrategy(k) == k + 1

\* mutant of Launched: the strategies are started together, not awaited in turn
Launched_Together(k) == {Strategies[j] : j \in (k + 1)..Len(Strategies)}

\* the strategies the loop starts when it moves on from the k-th one
Launched(k) == {Strategies[NextStrategy(k)]}

\* mutant of OuterCatch: no outer try/catch, the error rejects the promise
OuterCatch_Rethrow(e) == [threw |-> TRUE, envelope |-> NoRet]

\* the outer catch: { status: 'error', message: error.message || 'Unknown error occurred' }
OuterCatch(e) == [threw |-> FALSE, envelope |-> Failure(IF e # <<>> THEN e ELSE UnknownErrorMessage)]

RequestOf(name) ==
  CASE name = "page"  -> PageRequest(url)
    [] name = "api"   -> ApiRequest(videoId', 1)
    [] name = "embed" -> EmbedRequest(videoId')

\* the loop once the k-th strategy has settled with ret (k = 0: the loop starts)
Advance(k, ret) ==
  /\ stratRet' = ret
  /\ CASE LoopDecision(ret) = "return" ->
            /\ result' = Returned(ret)
            /\ pc' = "done"
            /\ inflight' = inflight \ {Strategies[k]}
            /\ UNCHANGED <<calls, requests, mirror, threw>>
       [] LoopDecision(ret) = "next" /\ NextStrategy(k) <= Len(Strategies) ->
            LET name == Strategies[NextStrategy(k)] IN
            /\ calls' = calls \o <<name>>
            /\ inflight' = (inflight \ (IF k > 0 THEN {Strategies[k]} ELSE {})) \cup Launched(k)
            /\ requests' = requests \o <<RequestOf(name)>>
            /\ mirror' = IF name = "api" THEN 1 ELSE 0
            /\ pc' = name
            /\ UNCHANGED <<result, threw>>
       [] LoopDecision(ret) = "next" /\ NextStrategy(k) > Len(Strategies) ->
            /\ result' = Failure(AllFailedMessage(impl))
            /\ pc' = "done"
            /\ inflight' = inflight \ {Strategies[k]}
            /\ UNCHANGED <<calls, requests, mirror, threw>>
       [] OTHER ->
            \* an error that leaves the loop lands in the outer catch
            /\ result' = OuterCatch(ret.error).envelope
            /\ threw' = OuterCatch(ret.error).threw
            /\ pc' = "done"
            /\ inflight' = inflight \ {Strategies[k]}
            /\ UNCHANGED <<calls, requests, mirror>>

(***************************************************************************)
(* scrapeTikTok: one action per stretch of code between two awaits.        *)
(***************************************************************************)
\* the JSON.parse errors fetchFromWebPage raises on a document: a container
\* is parsed unless an earlier one already gave the item
RaisedBy(im, doc) ==
  IF \E k \in 1..NumContainers(im) :
        doc[k] = "badjson" /\ \A j \in 1..(k - 1) : doc[j] # "item"
  THEN {ParseError} ELSE {}

\* if (!videoId): the mutant never takes the early return
InvalidId_Never(vid) == FALSE

\* if (!videoId)
InvalidId(vid) == vid = Null

\* from the call to the first await
Begin ==
  /\ pc = "start"
  /\ videoId' = extractVideoId(impl, url)
  /\ UNCHANGED <<impl, url, raw, now, num, text, fetched, raised>>
  /\ IF InvalidId(videoId')
     THEN /\ result' = Failure(InvalidUrlMessage(impl))
          /\ pc' = "done"
          /\ UNCHANGED <<calls, requests, inflight, stratRet, mirror, threw>>
     ELSE IF impl = "lib"
     THEN /\ requests' = <<PageRequest(url)>>
          /\ pc' = "libpage"
          /\ UNCHANGED <<calls, inflight, stratRet, mirror, result, threw>>
     ELSE Advance(0, NoRet)

\* fetchFromWebPage: axios.get rejects (timeout, non-2xx), nothing catches it
\* inside the strategy
PageFails ==
  /\ pc = "page"
  /\ \E e \in NetErrors :
       /\ raised' = raised \cup {e}
       /\ UNCHANGED <<impl, url, raw, now, num, text, fetched, videoId>>
       /\ Advance(1, Thrown(e))

\* fetchFromWebPage: the document arrives
PageResponds ==
  /\ pc = "page"
  /\ \E html \in [1..3 -> ContainerStates] :
       /\ fetched' = html
       /\ raised' = raised \cup RaisedBy(impl, html)
       /\ UNCHANGED <<impl, url, raw, now, num, text, videoId>>
       /\ Advance(1, ScanContainers(impl, html, 1, raw))

\* fetchFromApi: what follows a mirror that failed or had no item
ApiMovesOn ==
  IF mirror < NumMirrors(impl)
  THEN /\ requests' = requests \o <<ApiRequest(videoId, mirror + 1)>>
       /\ mirror' = mirror + 1
       /\ UNCHANGED <<pc, calls, inflight, stratRet, result, threw>>
  ELSE Advance(2, NullRet)

\* fetchFromApi: axios.get rejects; catch (e) { continue; } / return null
ApiFails ==
  /\ pc = "api"
  /\ \E e \in NetErrors :
       /\ raised' = raised \cup {e}
       /\ UNCHANGED <<impl, url, raw, now, num, text, fetched, videoId>>
       /\ ApiMovesOn

\* fetchFromApi: the mirror answers, with aweme_list empty or holding the item
ApiResponds ==
  /\ pc = "api"
  /\ \E list \in {"empty", "item"} :
       /\ UNCHANGED <<impl, url, raw, now, num, text, fetched, videoId, raised>>
       /\ IF list = "item" THEN Advance(2, formatResponse(impl, raw)) ELSE ApiMovesOn

\* fetchFromEmbed: axios.get rejects; the strategy's own catch returns null
EmbedFails ==
  /\ pc = "embed"
  /\ \E e \in NetErrors :
       /\ raised' = raised \cup {e}
       /\ UNCHANGED <<impl, url, raw, now, num, text, fetched, videoId>>
       /\ Advance(3, NullRet)

\* fetchFromEmbed: the embed page arrives
EmbedResponds ==
  /\ pc = "embed"
  /\ \E body \in {"nomatch", "badjson", "noitem", "item"} :
       /\ raised' = raised \cup (IF impl = "part1" /\ body = "badjson" THEN {ParseError} ELSE {})
       /\ UNCHANGED <<impl, url, raw, now, num, text, fetched, videoId>>
       /\ Advance(3, EmbedResult(impl, body, raw))

\* what src/lib/tiktok-scraper.ts resolves with once its page fetch settled
LibSettle(ret) ==
  /\ stratRet' = ret
  /\ pc' = "done"
  /\ IF ret.status = "thrown"
     THEN /\ result' = OuterCatch(ret.error).envelope
          /\ threw' = OuterCatch(ret.error).threw
     ELSE /\ result' = ret
          /\ threw' = threw
  /\ UNCHANGED <<impl, url, raw, now, num, text, fetched, videoId, calls, requests, inflight, mirror>>

LibPageFails ==
  /\ pc = "libpage"
  /\ \E e \in NetErrors :
       /\ raised' = raised \cup {e}
       /\ LibSettle(Thrown(e))

LibPageResponds ==
  /\ pc = "libpage"
  /\ \E body \in ContainerStates :
       /\ raised' = raised \cup (IF body = "badjson" THEN {ParseError} ELSE {})
       /\ LibSettle(LibPageResult(body, raw, videoId))

(***************************************************************************)
(* Inputs.                                                                 *)
(***************************************************************************)
Scheme == <<"h", "t", "t", "p", "s", ":", "/", "/">>
WwwHost == <<"w", "w", "w", ".">> \o TikTokCom
ExampleHost == <<"e", "x", "a", "m", "p", "l", "e", ".", "c", "o", "m">>
Hosts == {WwwHost, VmHost, VtHost, MHost, ExampleHost}

Ids == UNION {[1..n -> {"1", "7"}] : n \in 1..MaxIdLen}
Codes == {<<"Z", "a", "b">>, <<"Z", "7">>}
UserDot == <<"u", ".", "s">>
UserDash == <<"u", "-", "s">>

Canonical(user, id) == <<"/", "@">> \o user \o SlashVideo \o id
LegacyVideo(id) == SlashVideo \o id
LegacyV(id) == SlashV \o id
TShort(code) == SlashT \o code
Bare(code) == <<"/">> \o code

Paths ==
  {Canonical(u, d) : u \in {UserDot, UserDash}, d \in Ids}
  \cup {LegacyVideo(d) : d \in Ids}
  \cup {LegacyV(d) : d \in Ids}
  \cup {TShort(c) : c \in Codes}
  \cup {Bare(c) : c \in Codes}
  \cup {<<>>, <<"/">>, <<"/", "f", "o", "o">>}

Suffixes == {<<>>, <<"?", "a">>}

Url(host, path) == Scheme \o host \o path

AllUrls == {Url(h, p \o x) : h \in Hosts, p \in Paths, x \in Suffixes}

Id12 == <<"1", "2">>
Zab == <<"Z", "a", "b">>

SampleUrls ==
  {Url(WwwHost, Canonical(UserDot, Id12)),
   Url(MHost, LegacyV(Id12)),
   Url(VmHost, Bare(Zab)),
   Url(VtHost, Bare(Zab)),
   Url(WwwHost, TShort(Zab)),
   Url(VtHost, <<"/">>),
   Url(ExampleHost, <<"/", "f", "o", "o">>)}

Ratios == {Null, Q720p, QDefault}
PlayUrls == {Null, U1, U2}
BitRateEntries ==
  {BitRate(U1, 720, 1280, Null), BitRate(U3, 0, 0, Null), BitRate(U3, 720, 1280, Null),
   BitRate(Null, 576, 1024, Null)}
BitrateInfos == {BitRate(U1, 0, 0, Q720p), BitRate(U3, 0, 0, Null), BitRate(Null, 0, 0, Q480p)}

SnakeVideos ==
  {[NoVideo EXCEPT !.present = TRUE, !.ratio = r, !.play_addr = p, !.bit_rate = b,
                   !.download_addr = d] :
     r \in Ratios, p \in SeqsUpTo(PlayUrls, MaxPlay),
     b \in SeqsUpTo(BitRateEntries, MaxBitRate), d \in {<<>>, <<W1>>}}

CamelVideos ==
  {[NoVideo EXCEPT !.present = TRUE, !.ratio = r, !.playAddr = p, !.bitrateInfo = b,
                   !.downloadAddr = d] :
     r \in Ratios, p \in {Null, U1},
     b \in SeqsUpTo(BitrateInfos, MaxBitRate), d \in {Null, W1}}

SimpleVideo == [NoVideo EXCEPT !.present = TRUE, !.play_addr = <<U1>>, !.playAddr = U1]

ImgEntries ==
  {Img(I1, Null, Null, I1), Img(Null, I2, Null, Null), Img(Null, Null, I2, Null),
   Img(Null, Null, Null, Null)}

ImageFields ==
  {NoImages} \cup {[present |-> TRUE, images |-> l] : l \in SeqsUpTo(ImgEntries, MaxImages)}

VideoRecords ==
  {[RawBase EXCEPT !.id = Id99, !.video = v] :
     v \in SnakeVideos \cup CamelVideos \cup {NoVideo}}

ImageRecords ==
  {[RawBase EXCEPT !.aweme_id = Id99, !.imagePost = a, !.image_post_info = b,
                   !.aweme_type = t, !.video = v] :
     a \in ImageFields,
     b \in {NoImages, [present |-> TRUE, images |-> <<Img(I2, Null, Null, Null)>>]},
     t \in {0, 150}, v \in {NoVideo, SimpleVideo}}


\* the settings of one statistic in the two containers: each alias is absent
\* or carries a value of its own, so that the output tells which alias won
SnakeValues == {Missing, Num(0), Num(11)}
CamelValues == {Missing, Num(12)}
SnakeInStats == {Missing, Num(13)}
CamelInStats == {Missing, Num(14)}

\* a container in which every statistic has the snake-case value a and the
\* camel-case value b
StatsObject(a, b) ==
  [present |-> TRUE,
   digg_count |-> a, diggCount |-> b, comment_count |-> a, commentCount |-> b,
   share_count |-> a, shareCount |-> b, play_count |-> a, playCount |-> b]

\* a container in which only the statistic f is set
StatsOnly(f, a, b) ==
  [NoStats EXCEPT !.present = TRUE, ![SnakeKey(f)] = a, ![CamelKey(f)] = b]

StatisticsObjects ==
  {NoStats} \cup {StatsObject(a, b) : a \in SnakeValues, b \in CamelValues}
StatsObjects ==
  {NoStats} \cup {StatsObject(a, b) : a \in SnakeInStats, b \in CamelInStats}

\* records that differ in where a statistic is found
AliasRecords ==
  {[RawBase EXCEPT !.id = Id99, !.video = SimpleVideo, !.statistics = x, !.stats = y] :
     x \in StatisticsObjects, y \in StatsObjects}
  \cup {[RawBase EXCEPT !.id = Id99, !.video = SimpleVideo,
                        !.statistics = StatsOnly(f, a, Missing),
                        !.stats = StatsOnly(f, Missing, b)] :
          f \in StatFields, a \in SnakeValues, b \in CamelInStats}

\* what the upstream may send as a count: numbers, numerals, other text
CountValues ==
  {Num(7), Num(1500), Num(999999), Num(2000000),
   Str(<<"1", "2">>), Str(<<"1", "5", "0", "0">>), Str(<<"1", "2", "a">>),
   Str(<<"a", "b", "c">>), Str(<<>>)}

\* records that differ in what a statistic is
CountRecords ==
  {[RawBase EXCEPT !.id = Id99, !.video = SimpleVideo, !.statistics = StatsObject(v, Missing),
                   !.stats = StatsObject(Missing, w)] :
     v \in CountValues \cup {Missing}, w \in {Missing, Num(7)}}

\* records that differ in their creation time
TimedRecords ==
  {[RawBase EXCEPT !.id = Id99, !.video = SimpleVideo, !.create_time = a, !.createTime = b] :
     a \in {0, 3}, b \in {0, 4}}

RawRecords ==
  VideoRecords \cup ImageRecords \cup AliasRecords \cup CountRecords \cup TimedRecords

\* the instants the clock may show, in milliseconds
Times == {5000, 6000}

\* the arguments of formatNumber
Numbers ==
  {0, 1, 7, 12, 99, 100, 999, 1000, 1001, 1049, 1050, 1051, 1100, 1149, 1150, 1151, 1250,
   1449, 1450, 1500, 1950, 1999, 2000, 9949, 9950, 10000, 12345, 99949, 99950, 100000,
   999000, 999900, 999949, 999950, 999999, 1000000, 1049999, 1050000, 1150000, 1250000,
   1500000, 2000000, 12345678, 999949999, 999950000}

\* the records the upstream serves in the runs of scrapeTikTok
RawSamples ==
  {[RawBase EXCEPT !.id = Id99, !.aweme_id = Id99, !.video = SimpleVideo],
   [RawBase EXCEPT !.video = SimpleVideo],
   [RawBase EXCEPT !.id = Id99,
                   !.imagePost = [present |-> TRUE, images |-> <<Img(I1, Null, Null, I1)>>]],
   [RawBase EXCEPT !.aweme_id = Id99, !.aweme_type = 150]}

(***************************************************************************)
(* Specifications.                                                         *)
(***************************************************************************)
Quiet ==
  /\ videoId = Null
  /\ calls = <<>>
  /\ requests = <<>>
  /\ inflight = {}
  /\ raised = {}
  /\ stratRet = NoRet
  /\ mirror = 0
  /\ result = NoRet
  /\ threw = FALSE
  /\ text = Null
  /\ fetched = <<>>

\* a call of scrapeTikTok
Init ==
  /\ impl \in Impls
  /\ url \in SampleUrls
  /\ raw \in RawSamples
  /\ now \in Times
  /\ num = Missing
  /\ pc = "start"
  /\ Quiet

Next ==
  \/ Begin
  \/ PageFails
  \/ PageResponds
  \/ ApiFails
  \/ ApiResponds
  \/ EmbedFails
  \/ EmbedResponds
  \/ LibPageFails
  \/ LibPageResponds

Spec == Init /\ [][Next]_vars

\* extractVideoId applied to a URL
InitId ==
  /\ impl \in Impls
  /\ url \in AllUrls
  /\ raw = RawBase
  /\ now \in Times
  /\ num = Missing
  /\ pc = "id"
  /\ Quiet

ExtractId ==
  /\ pc = "id"
  /\ videoId' = extractVideoId(impl, url)
  /\ pc' = "extracted"
  /\ UNCHANGED <<impl, url, raw, now, num, text, fetched, calls, requests, inflight, raised, stratRet, mirror,
                 result, threw>>

SpecId == InitId /\ [][ExtractId]_vars

\* the assembler applied to a raw record
InitAsm ==
  /\ impl \in Impls
  /\ url = Url(WwwHost, Canonical(UserDot, Id12))
  /\ raw \in RawRecords
  /\ now \in Times
  /\ num = Missing
  /\ pc = "raw"
  /\ Quiet

\* what the assembler of the implementation makes of the record, read at the
\* present time
Assembled(vid) ==
  IF impl = "lib" THEN assemble_lib(raw, vid) ELSE formatResponse(impl, raw)

\* a first run of the assembler on the record
Assemble ==
  /\ pc = "raw"
  /\ videoId' = extractVideoId(impl, url)
  /\ stratRet' = Assembled(videoId')
  /\ pc' = "assembled"
  /\ UNCHANGED <<impl, url, raw, now, num, text, fetched, calls, requests, inflight, raised,
                 mirror, result, threw>>

\* time passes between two runs
Tick ==
  /\ pc = "assembled"
  /\ \E later \in {t \in Times : t >= now} : now' = later
  /\ pc' = "later"
  /\ UNCHANGED <<impl, url, raw, num, text, fetched, videoId, calls, requests, inflight,
                 raised, stratRet, mirror, result, threw>>

\* a second run of the assembler on the same record
Reassemble ==
  /\ pc = "later"
  /\ result' = Assembled(videoId)
  /\ pc' = "reassembled"
  /\ UNCHANGED <<impl, url, raw, now, num, text, fetched, videoId, calls, requests, inflight,
                 raised, stratRet, mirror, threw>>

NextAsm == Assemble \/ Tick \/ Reassemble

SpecAsm == InitAsm /\ [][NextAsm]_vars

\* formatNumber applied to a number
InitFmt ==
  /\ impl \in Impls
  /\ url = Url(WwwHost, Canonical(UserDot, Id12))
  /\ raw = RawBase
  /\ now \in Times
  /\ pc = "num"
  /\ num \in {Num(n) : n \in Numbers}
  /\ Quiet

Format ==
  /\ pc = "num"
  /\ text' = formatNumber(impl, num)
  /\ pc' = "formatted"
  /\ UNCHANGED <<impl, url, raw, now, num, fetched, videoId, calls, requests, inflight, raised,
                 stratRet, mirror, result, threw>>

SpecFmt == InitFmt /\ [][Format]_vars

\* a request in flight settles: it is answered or it fails
Settle ==
  \/ PageFails
  \/ PageResponds
  \/ ApiFails
  \/ ApiResponds
  \/ EmbedFails
  \/ EmbedResponds
  \/ LibPageFails
  \/ LibPageResponds

\* a call of scrapeTikTok whose network calls all settle: axios.get is given
\* a timeout, so that each request in flight is answered or fails
SpecLive == Init /\ [][Next]_vars /\ WF_vars(Settle)

(***************************************************************************)
(* Claims.                                                                 *)
(***************************************************************************)
Done == pc = "done"

\* C1: within one call the strategies are invoked one at a time in the
\* order page, api, embed: the strategies invoked form a prefix of that
\* order (so each at most once), at most one is in flight and it is the last
\* one invoked, a later strategy runs only after the one before it threw or
\* returned no success, and page-fetch is given the original URL while
\* api-fetch and embed-fetch are given the identifier.
C1_SequentialOrder ==
  /\ Len(calls) <= 3
  /\ \A i \in 1..Len(calls) : calls[i] = <<"page", "api", "embed">>[i]
  /\ Cardinality(inflight) <= 1
  /\ inflight # {} => inflight = {calls[Len(calls)]}
  /\ pc \in {"api", "embed"} => stratRet.status \in {"null", "thrown"}
  /\ \A i \in 1..Len(requests) :
       /\ requests[i].kind = "page" => requests[i].target = url
       /\ requests[i].kind \in {"api", "embed"} =>
            /\ requests[i].target = videoId
            /\ requests[i].kind \in {calls[j] : j \in 1..Len(calls)}

\* C1 witness: the third strategy is in flight after the first two failed
C1_Witness ==
  /\ pc = "embed"
  /\ calls = <<"page", "api", "embed">>
  /\ inflight = {"embed"}

\* C2: once a strategy has returned a success envelope the call is over:
\* scrapeTikTok has resolved with that very envelope, nothing is in flight
\* and the last request issued is one of the strategy that succeeded.
C2_FirstSuccessVerbatim ==
  stratRet.status = "success" =>
    /\ Done
    /\ result = stratRet
    /\ ~threw
    /\ inflight = {}
    /\ impl # "lib" => requests[Len(requests)].kind = calls[Len(calls)]

\* C2 witness: the second strategy succeeded and the third was never invoked
C2_Witness ==
  /\ Done
  /\ stratRet.status = "success"
  /\ result = stratRet
  /\ calls = <<"page", "api">>

\* C3 as stated: an underivable identifier gives the message
\* "Invalid URL format", with no strategy and no network call.
C3_Original ==
  (pc # "start" /\ extractVideoId(impl, url) = Null) =>
    /\ Done
    /\ result = Failure(<<"Invalid URL format">>)
    /\ calls = <<>>
    /\ requests = <<>>

\* C3 amended: an underivable identifier ends the call at once with the error
\* envelope whose message is "Invalid TikTok URL format" ("Invalid TikTok URL"
\* in src/lib/tiktok-scraper.ts); no strategy is attempted and no network
\* call is issued.
C3_InvalidUrlImmediate ==
  (pc # "start" /\ extractVideoId(impl, url) = Null) =>
    /\ Done
    /\ result = Failure(IF impl = "lib" THEN <<"Invalid TikTok URL">>
                        ELSE <<"Invalid TikTok URL format">>)
    /\ ~threw
    /\ calls = <<>>
    /\ requests = <<>>
    /\ inflight = {}

\* C3 witness: a call on a URL with no identifier has returned
C3_Witness ==
  /\ Done
  /\ extractVideoId(impl, url) = Null
  /\ result.status = "error"

\* C4: a call of the three-strategy scrapeTikTok that got an identifier and
\* ended with no strategy succeeding has tried all three (a throw is
\* swallowed and the next strategy runs) and resolves, without throwing, with
\* the error envelope whose message starts "All extraction methods failed.";
\* no sentence of the message is the text of an error a strategy raised.
C4_AllFailedGeneric ==
  (Done /\ impl # "lib" /\ videoId # Null /\ stratRet.status # "success") =>
    /\ Len(calls) = 3
    /\ ~threw
    /\ DOMAIN result = {"status", "message"}
    /\ result.status = "error"
    /\ Head(result.message) = "All extraction methods failed."
    /\ \A e \in raised : \A i \in 1..Len(result.message) : <<result.message[i]>> # e

\* C4 witness: all three strategies failed, one by a network error and one by
\* a JSON.parse error
C4_Witness ==
  /\ Done
  /\ Len(calls) = 3
  /\ stratRet.status # "success"
  /\ ParseError \in raised
  /\ raised \cap NetErrors # {}

WellFormed(r) ==
  \/ r.status = "success" /\ DOMAIN r = {"status", "data"}
  \/ r.status = "error" /\ DOMAIN r = {"status", "message"} /\ r.message # <<>>

\* C5: scrapeTikTok never throws, and the envelope it resolves with has
\* status success with data and no message, or status error with a message
\* and no data.
C5_NeverThrowsWellFormed ==
  /\ ~threw
  /\ Done => WellFormed(result)

\* C5 witness: the call returned after JSON.parse threw on a malformed payload
\* and nothing inside a strategy caught it
C5_Witness ==
  /\ Done
  /\ stratRet = Thrown(ParseError)
  /\ WellFormed(result)

FixedMessages ==
  {<<"Invalid TikTok URL">>, <<"Invalid TikTok URL format">>,
   <<"Could not extract video data">>, <<"Video not found or private">>,
   <<"Unknown error occurred">>,
   <<"All extraction methods failed.", "Video may be private, deleted, or region-blocked.">>,
   <<"All extraction methods failed.", "Video may be private or region-blocked.">>}

\* C6: the message of every error envelope is one of the fixed constant
\* strings, and is never the text of an error raised by a network call or by
\* JSON.parse.
C6_FixedMessagesOnly ==
  (Done /\ result.status = "error") =>
    /\ result.message \in FixedMessages
    /\ result.message \notin raised

\* the patterns of the list that match the URL, by index
Matching(im, u) == {k \in 1..Len(patterns(im)) : Search(u, patterns(im)[k]).ok}

\* the URL names a known redirect host
RedirectHost(u) == Includes(u, VmHost) \/ Includes(u, VtHost)

\* the supported URL shapes and the identifier each carries
ShapeOracle(u, vid) ==
  \A h \in {WwwHost, MHost}, d \in Ids, x \in Suffixes :
    /\ u = Url(h, Canonical(UserDot, d) \o x) => vid = d
    /\ u = Url(h, LegacyVideo(d) \o x) => vid = d
    /\ u = Url(h, LegacyV(d) \o x) => vid = d

\* C7 as stated: the first capture group of the first matching pattern, the
\* expected identifier for the supported shapes, and null exactly when no
\* pattern matches and the domain is not a known redirect host.
C7_Original ==
  pc = "extracted" =>
    /\ Matching(impl, url) # {} =>
         videoId = Search(url, patterns(impl)[Min(Matching(impl, url))]).cap
    /\ ShapeOracle(url, videoId)
    /\ videoId = Null <=> (Matching(impl, url) = {} /\ ~RedirectHost(url))

\* C7 amended: extractVideoId returns the first capture group of the first
\* pattern, in list order, that matches, which is the expected identifier for
\* the supported shapes.  When no pattern matches, src/lib/tiktok-scraper.ts
\* returns the sentinel "pending" if the URL contains vm.tiktok.com or
\* vt.tiktok.com and null otherwise, while part_001 and part_002, which have
\* no sentinel, return null whatever the host.
C7_FirstMatchWins ==
  pc = "extracted" =>
    /\ Matching(impl, url) # {} =>
         videoId = Search(url, patterns(impl)[Min(Matching(impl, url))]).cap
    /\ ShapeOracle(url, videoId)
    /\ videoId = Null <=>
         (Matching(impl, url) = {} /\ ~(impl = "lib" /\ RedirectHost(url)))
    /\ (Matching(impl, url) = {} /\ impl = "lib" /\ RedirectHost(url)) =>
         videoId = <<"p", "e", "n", "d", "i", "n", "g">>

\* C7 witness: a URL that two patterns match (vm.tiktok.com/v/17: the
\* short-link pattern and, later in the list, /v/{id}) gave the capture of
\* the earlier one
C7_Witness ==
  /\ pc = "extracted"
  /\ url = Url(VmHost, LegacyV(<<"1", "7">>))
  /\ Cardinality(Matching(impl, url)) >= 2
  /\ videoId = <<"v">>

\* the URL is a shortened link, which only a redirect resolves
ShortLink(u) == RedirectHost(u) \/ Includes(u, TikTokCom \o SlashT)

\* C8: for a shortened link, what extractVideoId produced (the sentinel or
\* the short-code) is never the target of an api or embed request and never
\* the id of a success record.
C8_ShortCodeNeverUsedAsId ==
  (ShortLink(url) /\ pc # "start" /\ videoId # Null) =>
    /\ \A i \in 1..Len(requests) :
         requests[i].kind \in {"api", "embed"} => requests[i].target # videoId
    /\ (Done /\ result.status = "success") => result.data.id # videoId

\* the post is an image post: an image-post field or aweme_type 150
ImagePostRecord(item) ==
  \/ HasImages(item.imagePost)
  \/ HasImages(item.image_post_info)
  \/ item.aweme_type = 150

\* C9: formatResponse gives type images exactly for an image post, and type
\* decides which of video and images the record holds.
C9_TypeDeterminesMedia ==
  (pc = "assembled" /\ impl # "lib") =>
    LET d == stratRet.data IN
    /\ d.type = "images" <=> ImagePostRecord(raw)
    /\ d.type \in {"images", "video"}
    /\ d.type = "video" => (d.video.present /\ ~d.images.present)
    /\ d.type = "images" => (d.images.present /\ ~d.video.present)

Rank(q) ==
  IF q = <<"1", "0", "8", "0", "p">> THEN 4
  ELSE IF q = <<"7", "2", "0", "p">> THEN 3
  ELSE IF q = <<"5", "4", "0", "p">> THEN 2
  ELSE IF q = <<"4", "8", "0", "p">> THEN 1
  ELSE 0

\* C10: the noWatermark list of a video record holds no URL twice, the entry
\* kept for a URL is its first occurrence in collection order (the
\* play-address list, labelled with the record's ratio, before the bitrate
\* ladder, labelled WIDTHxHEIGHT), and the list is ordered by non-increasing
\* quality rank.
C10_DedupedAndRanked ==
  (pc = "assembled" /\ impl # "lib" /\ stratRet.data.video.present) =>
    LET nw == stratRet.data.video.noWatermark
        InPlayList(u) == \E k \in 1..Len(raw.video.play_addr) : raw.video.play_addr[k] = u
    IN
    /\ \A i, j \in 1..Len(nw) : nw[i].url = nw[j].url => i = j
    /\ \A i \in 1..Len(nw) : InPlayList(nw[i].url) <=> ~Includes(nw[i].quality, <<"x">>)
    /\ \A i \in 1..(Len(nw) - 1) : Rank(nw[i].quality) >= Rank(nw[i + 1].quality)

\* the entries of a pool that are the first to carry their URL
Firsts(pool) == {i \in 1..Len(pool) : \A j \in 1..(i - 1) : pool[j].url # pool[i].url}

HdLabel(q) == Includes(q, <<"7", "2", "0">>) \/ Includes(q, <<"1", "0", "8", "0">>)

\* C11: hd of a video record is the URL of the first de-duplicated
\* noWatermark entry whose quality label contains "720" or "1080", else the
\* URL of the first entry, else, the pool being empty, null.
C11_HdFirstHighDefinition ==
  (pc = "assembled" /\ stratRet.data.video.present) =>
    LET nw == stratRet.data.video.noWatermark
        hits == {i \in Firsts(nw) : HdLabel(nw[i].quality)}
    IN stratRet.data.video.hd =
         (IF hits # {} THEN nw[Min(hits)].url
          ELSE IF nw # <<>> THEN nw[1].url
          ELSE Null)

\* the values a record carries under the aliases of the statistic f that the
\* implementation reads, in the order in which it reads them
AliasValues(im, item, f) ==
  IF im = "part1"
  THEN <<item.statistics[SnakeKey(f)], item.statistics[CamelKey(f)],
         item.stats[SnakeKey(f)], item.stats[CamelKey(f)]>>
  ELSE <<item.statistics[SnakeKey(f)], item.stats[CamelKey(f)]>>

FirstNonEmpty(vals) ==
  LET set == {i \in 1..Len(vals) : Truthy(vals[i])}
  IN IF set = {} THEN Num(0) ELSE vals[Min(set)]

RawName(f) ==
  CASE f = "likes"    -> "likesRaw"
    [] f = "comments" -> "commentsRaw"
    [] f = "shares"   -> "sharesRaw"
    [] f = "views"    -> "viewsRaw"

\* C12: each statistic of the output is the first non-empty value among the
\* known aliases of the field (snake-case and camel-case keys, under
\* statistics and under stats), taken in one fixed order, and 0 only when no
\* alias carries a value; so a record with both statistics.digg_count and
\* stats.diggCount always gives the same one.
C12_FirstNonEmptyAlias ==
  (pc = "assembled" /\ impl # "lib") =>
    \A f \in StatFields :
      LET v == FirstNonEmpty(AliasValues(impl, raw, f))
      IN v.t = "number" => stratRet.data.statistics[RawName(f)] = v

\* the value the implementation resolved for the statistic f
Resolved(im, item, f) ==
  IF im = "part1" THEN resolve_part1(item, f) ELSE resolve_part2(item, f)

\* text that does not start with a digit
NonNumeric(v) == v.t = "string" /\ (v.s = <<>> \/ v.s[1] \notin Digits)

\* C13: each of likesRaw, commentsRaw, sharesRaw, viewsRaw is an integer, 0
\* when the resolved upstream value is absent or non-numeric, and the display
\* string of the statistic is formatNumber of that same integer.
C13_RawIsIntegerAndShown ==
  (pc = "assembled" /\ impl # "lib") =>
    \A f \in StatFields :
      LET kept == stratRet.data.statistics[RawName(f)]
          v == Resolved(impl, raw, f)
      IN /\ kept.t = "number"
         /\ kept.n \in Nat
         /\ (v.t = "undefined" \/ NonNumeric(v)) => kept = Num(0)
         /\ stratRet.data.statistics[f] = formatNumber(impl, kept)

\* f tenths written as x.x, a trailing .0 left out
Shown(f) ==
  ToDec(f \div 10) \o (IF f % 10 = 0 THEN <<>> ELSE <<".", DigitOf(f % 10)>>)

Distance(a, b) == IF a >= b THEN a - b ELSE b - a

\* C14: formatNumber renders n < 1000 as its decimal digits, 1000 <= n <
\* 1,000,000 as x.xk where x.x is n/1000 to one decimal place and lies between
\* 1 and 999.9, and n >= 1,000,000 as x.xm, a trailing .0 being left out.
C14_FormatNumberRanges ==
  pc = "formatted" =>
    LET n == num.n IN
    /\ n < 1000 => text = ToDec(n)
    /\ (1000 <= n /\ n < 1000000) =>
         \E f \in 10..9999 :
           /\ Distance(100 * f, n) <= 50
           /\ text = Shown(f) \o <<"k">>
    /\ n >= 1000000 =>
         \E f \in {n \div 100000, n \div 100000 + 1} :
           /\ Distance(100000 * f, n) <= 50000
           /\ text = Shown(f) \o <<"m">>

\* the image entries of a record
SourceImages(item) ==
  IF item.imagePost.present THEN item.imagePost.images ELSE item.image_post_info.images

\* C15: the images of an image post are the entries of the upstream list, in
\* their order, each given the first non-empty URL of its alias list, those
\* whose URL is empty being dropped: no element of the output has an empty
\* url.
C15_ImagesResolvedAndFiltered ==
  (pc = "assembled" /\ stratRet.data.images.present) =>
    LET resolved == [i \in 1..Len(SourceImages(raw)) |->
                       [url |-> imageUrl(impl, SourceImages(raw)[i])]]
        NonEmpty(img) == img.url # <<>>
    IN /\ \A i \in 1..Len(stratRet.data.images.list) : stratRet.data.images.list[i].url # <<>>
       /\ stratRet.data.images.list = SelectSeq(resolved, NonEmpty)

\* the page strategy has a document and has returned: its return is in
\* stratRet until the next strategy settles
PageReturned ==
  /\ impl # "lib"
  /\ fetched # <<>>
  /\ \/ pc = "api"
     \/ Done /\ calls = <<"page">>

\* C16: page-fetch looks at the three containers in order, parses a container
\* only when it is present, and returns the record of the first whose item
\* structure resolves; a container that fails to parse, or parses without an
\* item, does not stop the scan, and page-fetch returns null, and does not
\* throw, when no container gives an item.
C16_ContainerScan ==
  PageReturned =>
    LET items == {k \in 1..3 : fetched[k] = "item"}
        parsed == {k \in 1..3 : fetched[k] # "absent" /\ \A j \in 1..(k - 1) : j \notin items}
    IN /\ stratRet.status # "thrown"
       /\ items # {} => stratRet = formatResponse(impl, raw)
       /\ items = {} => stratRet = [status |-> "null"]
       /\ (<<"Unexpected token < in JSON at position 0">> \in raised)
            <=> (\E k \in parsed : fetched[k] = "badjson")

\* the requests of one kind, in the order in which they were issued
RequestsOfKind(kind) ==
  LET OfKind(r) == r.kind = kind IN SelectSeq(requests, OfKind)

\* no endpoint is asked twice, and the mirrors are asked in list order
RequestsBounded ==
  /\ Len(RequestsOfKind("page")) <= 1
  /\ Len(RequestsOfKind("embed")) <= 1
  /\ Len(RequestsOfKind("api")) <= 3
  /\ \A i \in 1..Len(RequestsOfKind("api")) : RequestsOfKind("api")[i].mirror = i
  /\ \A i, j \in 1..Len(requests) : requests[i] = requests[j] => i = j
  /\ (stratRet.status = "success" /\ Len(RequestsOfKind("embed")) = 0 /\ Len(calls) = 2) =>
       requests[Len(requests)].kind = "api"

\* C17: when every network call settles, a call of scrapeTikTok that has
\* been made returns a Result envelope, having issued at most one page request, at most one
\* request to each API mirror, in list order and none after the mirror that
\* gave an item, and at most one embed request: no endpoint is asked twice,
\* no failed call is retried.
C17_TerminatesWithoutRetry ==
  /\ []RequestsBounded
  /\ (pc # "start") ~> (Done /\ ~threw /\ result.status \in {"success", "error"})

\* C17 witness: the call is over after every endpoint was asked once, each
\* request having failed or brought nothing
C17_Witness ==
  /\ Done
  /\ Len(requests) = 5
  /\ RequestsBounded
  /\ raised \cap NetErrors # {}
  /\ result.status = "error"

\* C18: two runs of the assembler on one raw record, at any two times, give
\* the same canonical record; a record without creation time gets a fixed
\* empty createdAt.
C18_AssemblerDeterministic ==
  pc = "reassembled" =>
    /\ result = stratRet
    /\ (raw.create_time = 0 /\ raw.createTime = 0) =>
         result.data.createdAt = [t |-> "string", s |-> <<>>]

=============================================================================
